---- MODULE Spec2Model ----
(***************************************************************************)
(* A model of the CLIP training orchestration (CLIP/train.py: Trainer) and *)
(* of the masked-token loss of ALBEF.forward (tinymm/ALBEF/model.py).      *)
(*                                                                         *)
(* Four specifications share the module:                                   *)
(*   SpecLR    Trainer.get_lr applied to bounded configs and iterations    *)
(*   SpecEval  Trainer.evaluate, one loop iteration per step               *)
(*   SpecMLM   the F.cross_entropy(..., ignore_index=-1) call of ALBEF     *)
(*   Spec      Trainer.train: the iteration loop with train_loop, the      *)
(*             periodic evaluation and the checkpoint decision             *)
(* A specification leaves the variables of the others at their idle value. *)
(***************************************************************************)
EXTENDS Integers, Sequences, FiniteSets, TLC

VARIABLES
    \* ---- Trainer.get_lr (SpecLR)
    lr_pc,          \* "idle" | "call" | "done"
    warmup_iters,   \* config.warmup_iters
    lr_decay_iters, \* config.lr_decay_iters
    lr_iteration,   \* the argument of get_lr
    lr_out,         \* what the call produced
    \* ---- Trainer.evaluate (SpecEval)
    ev_pc,          \* "idle" | "entry" | "loop" | "returned" | "raised"
    ev_items,       \* number of samples of the evaluation split
    ev_batch,       \* config.batch_size of the eval loader
    ev_k,           \* loop index of `for iteration in range(length - 1)`
    total_loss,     \* accumulated loss.item()
    sum_accuracy,    \* sum_accuracy, the accumulated correct / size, as a fraction
    training,       \* model.training: TRUE after model.train(), FALSE after model.eval()
    fwd_modes,      \* the values of model.training seen by evaluate's forward passes
    ev_ret,         \* the returned pair, or the exception raised
    \* ---- ALBEF.forward, MLM loss (SpecMLM)
    mlm_pc,         \* "idle" | "ready" | "one" | "done"
    targets,        \* targets.view(-1)
    logits1,        \* logits.view(-1, V) of the first input
    logits2,        \* logits.view(-1, V) of the second input
    mlm_loss1,
    mlm_loss2,
    \* ---- Trainer.train (Spec)
    pc,             \* "idle" | "step" | "eval" | "ckpt" | "done" | "aborted"
    cfg,            \* the TrainConfig and the dataset sizes of the run
    iteration,      \* the loop variable of train
    batch_iter,     \* self.batch_iter: samples left in the current pass
    last,           \* what the last train_loop call did
    nsteps,         \* train_loop calls that ran their optimization step
    nupdates,       \* optimizer.step() calls that were applied
    scale,          \* the GradScaler's scale factor
    cur_lr,         \* param_group["lr"]
    evals,          \* avg_accuracy of every evaluation of the run, in order
    saves,          \* for every evaluation, whether torch.save was called
    best_val_accuracy,
    raised          \* the exception that ended the run, "none" while it runs

lrVars == <<lr_pc, warmup_iters, lr_decay_iters, lr_iteration, lr_out>>
evVars == <<ev_pc, ev_items, ev_batch, ev_k, total_loss, sum_accuracy, fwd_modes, ev_ret>>
mlmVars == <<mlm_pc, targets, logits1, logits2, mlm_loss1, mlm_loss2>>
trVars == <<pc, cfg, iteration, batch_iter, last, nsteps, nupdates, scale, cur_lr,
            evals, saves, best_val_accuracy, raised>>
vars == <<lrVars, evVars, mlmVars, trVars, training>>

(***************************************************************************)
(* Bounds of the model.                                                    *)
(***************************************************************************)
MaxHorizon == 4      \* warmup_iters, lr_decay_iters range over 0..MaxHorizon
MaxLrIter == 6       \* get_lr is called with iterations 0..MaxLrIter
MaxEvalItems == 5    \* the evaluation split holds 0..MaxEvalItems samples
MaxEvalBatch == 2    \* batch sizes 1..MaxEvalBatch in SpecEval
MaxLoss == 2         \* loss.item() of a batch ranges over 1..MaxLoss (abstract units)

(***************************************************************************)
(* Exact fractions: floats of the program are kept as num/den, den > 0.    *)
(***************************************************************************)
Frac(n, d) == [num |-> n, den |-> d]
FracEq(a, b) == a.num * b.den = b.num * a.den
FracLe(a, b) == a.num * b.den <= b.num * a.den

(***************************************************************************)
(* TrainConfig.lr and TrainConfig.min_lr in units of 1e-6.                 *)
(***************************************************************************)
lr == 100
min_lr == 1

(***************************************************************************)
(* Trainer.get_lr.  The result names the branch taken and the value; the   *)
(* cosine branch keeps decay_ratio, from which coeff is 0.5*(1+cos(pi*r)): *)
(* r = 1 gives coeff = 0 (math.cos(math.pi) is exactly -1.0) and hence     *)
(* min_lr, r = 0 gives coeff = 1.  A division by zero and a failed assert  *)
(* are the exceptions Python raises there.                                 *)
(***************************************************************************)
DecayTestMut(it, d) == it > d + 1

DecayTest(it, d) == it > d

GetLr(it, w, d) ==
    IF it < w
    THEN [raised |-> "none", branch |-> "warmup", val |-> Frac(lr * it, w)]
    ELSE IF DecayTest(it, d)
    THEN [raised |-> "none", branch |-> "floor", val |-> Frac(min_lr, 1)]
    ELSE IF d - w = 0
    THEN [raised |-> "ZeroDivisionError", branch |-> "cosine", val |-> Frac(0, 1)]
    ELSE LET decay_ratio == Frac(it - w, d - w) IN
         IF ~(FracLe(Frac(0, 1), decay_ratio) /\ FracLe(decay_ratio, Frac(1, 1)))
         THEN [raised |-> "AssertionError", branch |-> "cosine", val |-> decay_ratio]
         ELSE [raised |-> "none", branch |-> "cosine", val |-> decay_ratio]

\* The call returned a learning rate equal to config.min_lr.
ReturnsMinLr(out) ==
    /\ out.raised = "none"
    /\ \/ out.branch \in {"warmup", "floor"} /\ FracEq(out.val, Frac(min_lr, 1))
       \/ out.branch = "cosine" /\ FracEq(out.val, Frac(1, 1))

NoOut == [raised |-> "none", branch |-> "none", val |-> Frac(0, 1)]

LrIdle ==
    /\ lr_pc = "idle"
    /\ warmup_iters = 0
    /\ lr_decay_iters = 0
    /\ lr_iteration = 0
    /\ lr_out = NoOut

LrInit ==
    /\ lr_pc = "call"
    /\ warmup_iters \in 0..MaxHorizon
    /\ lr_decay_iters \in 0..MaxHorizon
    /\ lr_iteration \in 0..MaxLrIter
    /\ lr_out = NoOut

\* One call get_lr(lr_iteration) that returns.
GetLrReturn ==
    /\ lr_pc = "call"
    /\ GetLr(lr_iteration, warmup_iters, lr_decay_iters).raised = "none"
    /\ lr_out' = GetLr(lr_iteration, warmup_iters, lr_decay_iters)
    /\ lr_pc' = "done"
    /\ UNCHANGED <<warmup_iters, lr_decay_iters, lr_iteration>>
    /\ UNCHANGED <<evVars, mlmVars, trVars, training>>

\* One call get_lr(lr_iteration) that raises.
GetLrRaise ==
    /\ lr_pc = "call"
    /\ GetLr(lr_iteration, warmup_iters, lr_decay_iters).raised # "none"
    /\ lr_out' = GetLr(lr_iteration, warmup_iters, lr_decay_iters)
    /\ lr_pc' = "done"
    /\ UNCHANGED <<warmup_iters, lr_decay_iters, lr_iteration>>
    /\ UNCHANGED <<evVars, mlmVars, trVars, training>>

(***************************************************************************)
(* Trainer.evaluate.                                                       *)
(***************************************************************************)
Min(a, b) == IF a < b THEN a ELSE b

\* len(DataLoader(ds, batch_size)) with drop_last=False: ceil(items / batch_size).
LoaderLen(items, batch) == (items + batch - 1) \div batch

\* Size of batch number k (from 0) of a pass over `items` samples.
BatchSize(items, batch, k) == Min(batch, items - k * batch)

\* nn.Module.eval() and nn.Module.train() on the training flag.
ModelEval(flag) == FALSE

ModelTrainMut(flag) == flag

ModelTrain(flag) == TRUE

FracAdd(a, b) ==
    IF a.den = b.den THEN Frac(a.num + b.num, a.den)
    ELSE Frac(a.num * b.den + b.num * a.den, a.den * b.den)

\* What evaluate divides its two accumulators by.
EvalDivisor(length, processed) == length

NoRet == [raised |-> "none", loss |-> Frac(0, 1), accuracy |-> Frac(0, 1)]

EvIdle ==
    /\ ev_pc = "idle"
    /\ ev_items = 0
    /\ ev_batch = 1
    /\ ev_k = 0
    /\ total_loss = 0
    /\ sum_accuracy = Frac(0, 1)
    /\ fwd_modes = {}
    /\ ev_ret = NoRet

EvInit ==
    /\ ev_pc = "entry"
    /\ ev_items \in 0..MaxEvalItems
    /\ ev_batch \in 1..MaxEvalBatch
    /\ ev_k = 0
    /\ total_loss = 0
    /\ sum_accuracy = Frac(0, 1)
    /\ fwd_modes = {}
    /\ ev_ret = NoRet
    /\ training = TRUE

\* model.eval(); total_loss = 0.0; batch_iter = iter(...); sum_accuracy = 0
EvalEnter ==
    /\ ev_pc = "entry"
    /\ training' = ModelEval(training)
    /\ total_loss' = 0
    /\ sum_accuracy' = Frac(0, 1)
    /\ ev_k' = 0
    /\ ev_pc' = "loop"
    /\ UNCHANGED <<ev_items, ev_batch, fwd_modes, ev_ret>>
    /\ UNCHANGED <<lrVars, mlmVars, trVars>>

\* One iteration of `for iteration in range(length - 1)`: the forward pass of
\* batch ev_k, `correct` of its rows predicted right, loss.item() = loss.
EvalBatch ==
    /\ ev_pc = "loop"
    /\ ev_k < LoaderLen(ev_items, ev_batch) - 1
    /\ LET size == BatchSize(ev_items, ev_batch, ev_k) IN
       \E correct \in 0..size, loss \in 1..MaxLoss :
          /\ fwd_modes' = fwd_modes \cup {training}
          /\ sum_accuracy' = FracAdd(sum_accuracy, Frac(correct, size))
          /\ total_loss' = total_loss + loss
    /\ ev_k' = ev_k + 1
    /\ UNCHANGED <<ev_pc, ev_items, ev_batch, ev_ret, training>>
    /\ UNCHANGED <<lrVars, mlmVars, trVars>>

\* model.train(); return total_loss / length, sum_accuracy / length
EvalReturn ==
    /\ ev_pc = "loop"
    /\ ev_k >= LoaderLen(ev_items, ev_batch) - 1
    /\ LoaderLen(ev_items, ev_batch) # 0
    /\ training' = ModelTrain(training)
    /\ LET div == EvalDivisor(LoaderLen(ev_items, ev_batch), ev_k) IN
       ev_ret' = [raised |-> "none",
                  loss |-> Frac(total_loss, div),
                  accuracy |-> Frac(sum_accuracy.num, sum_accuracy.den * div)]
    /\ ev_pc' = "returned"
    /\ UNCHANGED <<ev_items, ev_batch, ev_k, total_loss, sum_accuracy, fwd_modes>>
    /\ UNCHANGED <<lrVars, mlmVars, trVars>>

\* model.train(); total_loss / 0 raises with an empty evaluation loader.
EvalRaise ==
    /\ ev_pc = "loop"
    /\ ev_k >= LoaderLen(ev_items, ev_batch) - 1
    /\ LoaderLen(ev_items, ev_batch) = 0
    /\ training' = ModelTrain(training)
    /\ ev_ret' = [NoRet EXCEPT !.raised = "ZeroDivisionError"]
    /\ ev_pc' = "raised"
    /\ UNCHANGED <<ev_items, ev_batch, ev_k, total_loss, sum_accuracy, fwd_modes>>
    /\ UNCHANGED <<lrVars, mlmVars, trVars>>

(***************************************************************************)
(* ALBEF.forward, the MLM loss:                                            *)
(*   F.cross_entropy(logits.view(-1, V), targets.view(-1), ignore_index=-1)*)
(* over the flattened text positions.  The loss is the mean over the kept  *)
(* positions of -log softmax(logits[p])[targets[p]].  With exp taken to    *)
(* base 2 the softmax probabilities are exact fractions, and the loss is   *)
(* -log2(num/den) / n for the product num/den of the kept positions'       *)
(* probabilities: two losses are equal exactly when n and num/den are.     *)
(***************************************************************************)
MaxPos == 2                 \* number of flattened text positions
Classes == {0, 1}           \* the vocabulary
LogitValues == {0, 1}       \* the values a logit takes

ignore_index == -1

TargetValues == {-1} \cup Classes
Rows == [1..Cardinality(Classes) -> LogitValues]

\* Whether cross_entropy leaves the position out: its target is ignore_index.
IgnoredMut(t) == FALSE

Ignored(t) == t = ignore_index

\* row[t], a negative t counting from the end as tensor indexing does.
Select(row, t) == row[IF t < 0 THEN Len(row) + t + 1 ELSE t + 1]

RECURSIVE SumExp(_, _)
SumExp(row, j) == IF j = 0 THEN 0 ELSE 2 ^ row[j] + SumExp(row, j - 1)

RECURSIVE Likelihood(_, _, _)
Likelihood(logits, tg, p) ==
    IF p = 0 THEN [n |-> 0, num |-> 1, den |-> 1]
    ELSE LET rest == Likelihood(logits, tg, p - 1) IN
         IF Ignored(tg[p]) THEN rest
         ELSE [n |-> rest.n + 1,
               num |-> rest.num * (2 ^ Select(logits[p], tg[p])),
               den |-> rest.den * SumExp(logits[p], Len(logits[p]))]

\* reduction="mean": the sum over the kept positions divided by their number;
\* 0 / 0 = nan when every position is ignored.
CrossEntropy(logits, tg) ==
    LET l == Likelihood(logits, tg, Len(tg)) IN
    IF l.n = 0 THEN [nan |-> TRUE, n |-> 0, num |-> 1, den |-> 1]
    ELSE [nan |-> FALSE, n |-> l.n, num |-> l.num, den |-> l.den]

SameLoss(a, b) ==
    /\ a.nan = b.nan
    /\ a.n = b.n
    /\ a.num * b.den = b.num * a.den

NoLoss == [nan |-> FALSE, n |-> 0, num |-> 0, den |-> 1]

MlmIdle ==
    /\ mlm_pc = "idle"
    /\ targets = <<>>
    /\ logits1 = <<>>
    /\ logits2 = <<>>
    /\ mlm_loss1 = NoLoss
    /\ mlm_loss2 = NoLoss

MlmInit ==
    /\ mlm_pc = "ready"
    /\ targets \in [1..MaxPos -> TargetValues]
    /\ logits1 \in [1..MaxPos -> Rows]
    /\ logits2 \in [1..MaxPos -> Rows]
    /\ mlm_loss1 = NoLoss
    /\ mlm_loss2 = NoLoss

\* The forward pass on the first input.
MlmForward1 ==
    /\ mlm_pc = "ready"
    /\ mlm_loss1' = CrossEntropy(logits1, targets)
    /\ mlm_pc' = "one"
    /\ UNCHANGED <<targets, logits1, logits2, mlm_loss2>>
    /\ UNCHANGED <<lrVars, evVars, trVars, training>>

\* The forward pass on the second input.
MlmForward2 ==
    /\ mlm_pc = "one"
    /\ mlm_loss2' = CrossEntropy(logits2, targets)
    /\ mlm_pc' = "done"
    /\ UNCHANGED <<targets, logits1, logits2, mlm_loss1>>
    /\ UNCHANGED <<lrVars, evVars, trVars, training>>

(***************************************************************************)
(* Trainer.train_loop.                                                     *)
(***************************************************************************)
MaxTrainItems == 3   \* the training set holds 0..MaxTrainItems samples
MaxTrainBatch == 2   \* config.batch_size ranges over 1..MaxTrainBatch
MaxIters == 6        \* config.max_iters
MaxEvalIters == 2    \* config.eval_iters ranges over 1..MaxEvalIters

\* next(self.batch_iter) on a pass with `rem` samples left: the next batch,
\* short when fewer than batch_size samples are left, or StopIteration.
NextBatch(rem, batch) ==
    IF rem = 0 THEN [stop |-> TRUE, size |-> 0, rem |-> 0]
    ELSE [stop |-> FALSE, size |-> Min(batch, rem), rem |-> rem - Min(batch, rem)]

Fetched(st, sz, rm, lg, fl) ==
    [status |-> st, fed |-> sz, rem |-> rm, logged |-> lg, fault |-> fl]

\* train_loop's handler of a fault raised by the re-fetch at line 72, inside
\* the try block: `except Exception` prints it, and images, texts keep the
\* short batch n1 that line 69 bound.
RefetchFaultMut(n1, n2) == Fetched("Fault", 0, n2.rem, FALSE, "refetch")

RefetchFault(n1, n2) == Fetched("ok", n1.size, n2.rem, TRUE, "refetch")

\* train_loop's handler of a fault raised by the first fetch at line 69:
\* `except Exception` prints it; images is unbound, so line 79 raises.
FirstFetchFault(n1) == Fetched("UnboundLocalError", 0, n1.rem, TRUE, "first")

\* Lines 68-77 of train_loop: the batch that reaches the forward pass, or the
\* exception that leaves train_loop.  f1 (f2): the first (second) call of next
\* raises a fault other than StopIteration; a fault consumes the batch.
\* iter(self.train_loader) starts a pass over all `items` samples.
FetchBatch(rem, items, batch, f1, f2) ==
    LET n1 == NextBatch(rem, batch)
        n2 == NextBatch(items, batch)
    IN  IF n1.stop
        THEN \* except StopIteration: a raise in this handler propagates
             IF n2.stop THEN Fetched("StopIteration", 0, n2.rem, FALSE, "none")
             ELSE IF f2 THEN Fetched("Fault", 0, n2.rem, FALSE, "handler")
             ELSE Fetched("ok", n2.size, n2.rem, FALSE, "none")
        ELSE IF f1 THEN FirstFetchFault(n1)
        ELSE IF n1.size < batch
        THEN IF n2.stop THEN Fetched("StopIteration", 0, n2.rem, FALSE, "none")
             ELSE IF f2 THEN RefetchFault(n1, n2)
             ELSE Fetched("ok", n2.size, n2.rem, FALSE, "none")
        ELSE Fetched("ok", n1.size, n1.rem, FALSE, "none")

\* self.dtype, and GradScaler(enabled=(self.dtype == "float16")).
dtype == "bfloat16"

ScalerEnabledMut == TRUE

ScalerEnabled == dtype = "float16"

\* GradScaler's default init_scale, 2.0 ** 16.
InitScale == 65536

\* Lines 85-90: scaler.scale(loss).backward(); unscale_; clip_grad_norm_;
\* scaler.step(optimizer); scaler.update().  An enabled scaler calls
\* optimizer.step() only when unscale_ found no inf/nan gradient and update()
\* then halves the scale (backoff_factor 0.5); a disabled scaler passes the
\* loss through, and step() is optimizer.step() itself.
OptimizationStep(finite, sc) ==
    [applied |-> IF ScalerEnabled THEN finite ELSE TRUE,
     scale |-> IF ScalerEnabled /\ ~finite THEN sc \div 2 ELSE sc]

NoCall ==
    [status |-> "none", fed |-> 0, logged |-> FALSE, fault |-> "none",
     forward |-> FALSE, finite |-> TRUE, applied |-> FALSE]

\* One call of train_loop: what it did, and the loader and scaler state it leaves.
TrainLoop(rem, items, batch, f1, f2, finite, sc) ==
    LET b == FetchBatch(rem, items, batch, f1, f2)
        o == OptimizationStep(finite, sc)
    IN  IF b.status # "ok"
        THEN [call |-> [status |-> b.status, fed |-> 0, logged |-> b.logged,
                        fault |-> b.fault, forward |-> FALSE, finite |-> TRUE,
                        applied |-> FALSE],
              rem |-> b.rem, scale |-> sc]
        ELSE [call |-> [status |-> "ok", fed |-> b.fed, logged |-> b.logged,
                        fault |-> b.fault, forward |-> TRUE, finite |-> finite,
                        applied |-> o.applied],
              rem |-> b.rem, scale |-> o.scale]

(***************************************************************************)
(* Trainer.train.                                                          *)
(***************************************************************************)
\* avg_accuracy and best_val_accuracy in units of 1e-9: 0, 0.40, 0.50, 0.55, 0.60.
AccValues == {0, 400000000, 500000000, 550000000, 600000000}

\* best_val_accuracy = 1e-9
BestValInit == 1

\* (warmup_iters, lr_decay_iters) of the runs.
TrainHorizons == {<<1, 3>>, <<2, 2>>}

\* len(self.eval_loader) of the runs.
EvalLens == {0, 1, 3}

EvalDueMut(it, eval_iters) == it % eval_iters = 0

\* iteration % self.config.eval_iters == 0 and iteration > 0
EvalDue(it, eval_iters) == it % eval_iters = 0 /\ it > 0

\* The checkpoint test of line 179.
Improved(acc, best) == acc > best

TrainInit ==
    /\ pc = "step"
    /\ cfg \in [train_items : 0..MaxTrainItems, batch_size : 1..MaxTrainBatch,
                eval_iters : 1..MaxEvalIters, max_iters : {MaxIters},
                eval_len : EvalLens]
    /\ \E h \in TrainHorizons : warmup_iters = h[1] /\ lr_decay_iters = h[2]
    /\ iteration = 0
    /\ batch_iter = cfg.train_items
    /\ last = NoCall
    /\ nsteps = 0
    /\ nupdates = 0
    /\ scale = InitScale
    /\ cur_lr = NoOut
    /\ evals = <<>>
    /\ saves = <<>>
    /\ best_val_accuracy = BestValInit
    /\ raised = "none"
    /\ training = TRUE

TrIdle ==
    /\ pc = "idle"
    /\ cfg = [train_items |-> 0, batch_size |-> 1, eval_iters |-> 1, max_iters |-> 0,
              eval_len |-> 0]
    /\ iteration = 0
    /\ batch_iter = 0
    /\ last = NoCall
    /\ nsteps = 0
    /\ nupdates = 0
    /\ scale = InitScale
    /\ cur_lr = NoOut
    /\ evals = <<>>
    /\ saves = <<>>
    /\ best_val_accuracy = BestValInit
    /\ raised = "none"

\* The end of the loop body: the next index of range(max_iters), or the end.
Advance ==
    /\ iteration' = iteration + 1
    /\ pc' = IF iteration + 1 < cfg.max_iters THEN "step" ELSE "done"

\* Lines 157-161 and 177: get_lr, the lr of the param groups, train_loop, and
\* the test whether an evaluation is due.
TrainIteration ==
    /\ pc = "step"
    /\ iteration < cfg.max_iters
    /\ GetLr(iteration, warmup_iters, lr_decay_iters).raised = "none"
    /\ \E f1 \in BOOLEAN, f2 \in BOOLEAN, finite \in BOOLEAN :
          LET r == TrainLoop(batch_iter, cfg.train_items, cfg.batch_size,
                             f1, f2, finite, scale)
          IN  /\ r.call.status = "ok"
              /\ last' = r.call
              /\ batch_iter' = r.rem
              /\ scale' = r.scale
              /\ nupdates' = nupdates + (IF r.call.applied THEN 1 ELSE 0)
    /\ cur_lr' = GetLr(iteration, warmup_iters, lr_decay_iters)
    /\ nsteps' = nsteps + 1
    /\ IF EvalDue(iteration, cfg.eval_iters)
       THEN pc' = "eval" /\ UNCHANGED iteration
       ELSE Advance
    /\ UNCHANGED <<cfg, evals, saves, best_val_accuracy, raised, training>>
    /\ UNCHANGED <<lrVars, evVars, mlmVars>>

\* get_lr raises: the run ends before train_loop is called.
TrainLrRaise ==
    /\ pc = "step"
    /\ iteration < cfg.max_iters
    /\ GetLr(iteration, warmup_iters, lr_decay_iters).raised # "none"
    /\ raised' = GetLr(iteration, warmup_iters, lr_decay_iters).raised
    /\ pc' = "aborted"
    /\ UNCHANGED <<cfg, iteration, batch_iter, last, nsteps, nupdates, scale, cur_lr,
                  evals, saves, best_val_accuracy, training>>
    /\ UNCHANGED <<lrVars, evVars, mlmVars>>

\* train_loop raises before its forward pass: the run ends.
TrainLoopRaise ==
    /\ pc = "step"
    /\ iteration < cfg.max_iters
    /\ GetLr(iteration, warmup_iters, lr_decay_iters).raised = "none"
    /\ \E f1 \in BOOLEAN, f2 \in BOOLEAN :
          LET r == TrainLoop(batch_iter, cfg.train_items, cfg.batch_size,
                             f1, f2, TRUE, scale)
          IN  /\ r.call.status # "ok"
              /\ last' = r.call
              /\ batch_iter' = r.rem
              /\ raised' = r.call.status
    /\ cur_lr' = GetLr(iteration, warmup_iters, lr_decay_iters)
    /\ pc' = "aborted"
    /\ UNCHANGED <<cfg, iteration, nsteps, nupdates, scale, evals, saves,
                  best_val_accuracy, training>>
    /\ UNCHANGED <<lrVars, evVars, mlmVars>>

\* Line 178, self.evaluate(cmodel), as one step: its result is an accuracy of
\* AccValues (0 when the loop of evaluate processes no batch), and the model
\* is back in training mode.
TrainEvaluate ==
    /\ pc = "eval"
    /\ cfg.eval_len # 0
    /\ \E acc \in (IF cfg.eval_len = 1 THEN {0} ELSE AccValues) :
          evals' = Append(evals, acc)
    /\ training' = ModelTrain(ModelEval(training))
    /\ pc' = "ckpt"
    /\ UNCHANGED <<cfg, iteration, batch_iter, last, nsteps, nupdates, scale, cur_lr,
                  saves, best_val_accuracy, raised>>
    /\ UNCHANGED <<lrVars, evVars, mlmVars>>

\* self.evaluate raises ZeroDivisionError on an empty evaluation loader.
TrainEvaluateRaise ==
    /\ pc = "eval"
    /\ cfg.eval_len = 0
    /\ training' = ModelTrain(ModelEval(training))
    /\ raised' = "ZeroDivisionError"
    /\ pc' = "aborted"
    /\ UNCHANGED <<cfg, iteration, batch_iter, last, nsteps, nupdates, scale, cur_lr,
                  evals, saves, best_val_accuracy>>
    /\ UNCHANGED <<lrVars, evVars, mlmVars>>

\* Lines 179-187: the checkpoint decision on the evaluation's result.
\* best_val_accuracy is not assigned anywhere in the loop.
Checkpoint ==
    /\ pc = "ckpt"
    /\ saves' = Append(saves, Improved(evals[Len(evals)], best_val_accuracy))
    /\ Advance
    /\ UNCHANGED <<cfg, batch_iter, last, nsteps, nupdates, scale, cur_lr, evals,
                  best_val_accuracy, raised, training>>
    /\ UNCHANGED <<lrVars, evVars, mlmVars>>

(***************************************************************************)
(* The specifications.                                                     *)
(***************************************************************************)
InitLR == LrInit /\ EvIdle /\ MlmIdle /\ TrIdle /\ training = TRUE
NextLR == GetLrReturn \/ GetLrRaise
SpecLR == InitLR /\ [][NextLR]_vars

InitEval == EvInit /\ LrIdle /\ MlmIdle /\ TrIdle
NextEval == EvalEnter \/ EvalBatch \/ EvalReturn \/ EvalRaise
SpecEval == InitEval /\ [][NextEval]_vars

InitMLM == MlmInit /\ LrIdle /\ EvIdle /\ TrIdle /\ training = TRUE
NextMLM == MlmForward1 \/ MlmForward2
SpecMLM == InitMLM /\ [][NextMLM]_vars

Init == TrainInit /\ lr_pc = "idle" /\ lr_iteration = 0 /\ lr_out = NoOut /\ EvIdle /\ MlmIdle
Next ==
    \/ TrainIteration
    \/ TrainLrRaise
    \/ TrainLoopRaise
    \/ TrainEvaluate
    \/ TrainEvaluateRaise
    \/ Checkpoint
Spec == Init /\ [][Next]_vars

(***************************************************************************)
(* The properties.                                                         *)
(***************************************************************************)
Max(a, b) == IF a > b THEN a ELSE b

\* The best accuracy seen at the evaluations before number k of the run,
\* starting from the initial best value.
RECURSIVE BestBefore(_)
BestBefore(k) == IF k = 1 THEN BestValInit ELSE Max(BestBefore(k - 1), evals[k - 1])

\* C1: a checkpoint is written at an evaluation exactly when its average
\* accuracy is strictly greater than the best accuracy of all earlier
\* evaluations of the run; for the accuracies 0.40, 0.40, 0.55, 0.50, 0.60
\* the checkpoints are written at the 1st, 3rd and 5th evaluation only.
CheckpointOnStrictImprovement ==
    /\ \A k \in 1..Len(saves) : saves[k] <=> (evals[k] > BestBefore(k))
    /\ (/\ Len(saves) = 5
        /\ evals = <<400000000, 400000000, 550000000, 500000000, 600000000>>)
          => saves = <<TRUE, FALSE, TRUE, FALSE, TRUE>>

\* C2: the batch that train_loop feeds to the forward pass has exactly
\* config.batch_size elements.
FullBatchFedForward == last.forward => last.fed = cfg.batch_size

\* C3: evaluate returns the accumulated loss and the accumulated accuracy
\* each divided by the number of batches it processed.
EvalReturnsTrueMean ==
    (ev_pc = "returned" /\ ev_k > 0) =>
        /\ FracEq(ev_ret.loss, Frac(total_loss, ev_k))
        /\ FracEq(ev_ret.accuracy, Frac(sum_accuracy.num, sum_accuracy.den * ev_k))

\* Number of positive multiples of e that are below i.
MultiplesBelow(i, e) == IF i = 0 THEN 0 ELSE (i - 1) \div e

\* C4: an evaluation runs at iteration i exactly when i is a positive multiple
\* of eval_iters, after that iteration's optimization step; the checkpoint
\* decision consumes its result before the next optimization step; the
\* iterations 0 .. max_iters-1 take one optimization step each, in order, and
\* the loop then ends.
EvalCadence ==
    /\ pc \in {"step", "done"} =>
          /\ nsteps = iteration
          /\ Len(evals) = MultiplesBelow(iteration, cfg.eval_iters)
          /\ Len(saves) = Len(evals)
    /\ pc = "step" => iteration < cfg.max_iters
    /\ pc = "done" => iteration = cfg.max_iters /\ raised = "none"
    /\ pc \in {"eval", "ckpt"} =>
          /\ iteration > 0
          /\ iteration % cfg.eval_iters = 0
          /\ nsteps = iteration + 1
          /\ Len(saves) = MultiplesBelow(iteration, cfg.eval_iters)
          /\ Len(evals) = Len(saves) + (IF pc = "ckpt" THEN 1 ELSE 0)
    /\ pc = "aborted" => raised # "none" /\ nsteps \in {iteration, iteration + 1}

\* C4, witness: a run that ended after max_iters steps and several evaluations.
EvalCadenceWitness ==
    /\ pc = "done"
    /\ nsteps = cfg.max_iters
    /\ cfg.eval_iters = 2
    /\ Len(saves) = 2

FloorAboveDecayHorizon ==
    (lr_pc = "done" /\ lr_iteration > lr_decay_iters) => ReturnsMinLr(lr_out)

\* C7, amended: for every iteration above lr_decay_iters that is not below
\* warmup_iters get_lr returns min_lr; below warmup_iters it returns the
\* warmup ramp lr * iteration / warmup_iters.
FloorAboveDecayAfterWarmup ==
    (lr_pc = "done" /\ lr_iteration > lr_decay_iters) =>
        IF lr_iteration >= warmup_iters
        THEN lr_out.branch = "floor" /\ ReturnsMinLr(lr_out)
        ELSE /\ lr_out.branch = "warmup"
             /\ lr_out.raised = "none"
             /\ FracEq(lr_out.val, Frac(lr * lr_iteration, warmup_iters))

\* C7, witness: a call above the decay horizon and past the warmup.
FloorAboveDecayWitness ==
    /\ lr_pc = "done"
    /\ warmup_iters > 0
    /\ lr_iteration = lr_decay_iters + 1
    /\ lr_iteration >= warmup_iters
    /\ ReturnsMinLr(lr_out)

\* Two inputs agree at every position whose target is not the sentinel -1.
AgreeOffSentinel ==
    \A p \in 1..Len(targets) : targets[p] # -1 => logits1[p] = logits2[p]

\* C8: two inputs with the same targets that differ only in the logits of
\* positions whose target is -1 have the same MLM loss.
MlmLossIgnoresSentinel ==
    (mlm_pc = "done" /\ AgreeOffSentinel) => SameLoss(mlm_loss1, mlm_loss2)

\* C8, witness: two inputs that differ at a sentinel position, with a kept
\* position, and equal losses.
MlmLossWitness ==
    /\ mlm_pc = "done"
    /\ AgreeOffSentinel
    /\ logits1 # logits2
    /\ ~mlm_loss1.nan
    /\ SameLoss(mlm_loss1, mlm_loss2)

\* C9: when evaluate completes the model is in training mode again, and every
\* forward pass of evaluate ran in evaluation mode.
EvalRestoresTraining ==
    /\ ev_pc \in {"returned", "raised"} => training
    /\ fwd_modes \subseteq {FALSE}

\* C9, witness: evaluate returned after forward passes in evaluation mode.
EvalRestoresTrainingWitness ==
    /\ ev_pc = "returned"
    /\ ev_k >= 2
    /\ fwd_modes = {FALSE}
    /\ training

\* C10: whenever get_lr reaches the cosine branch the decay fraction is
\* defined and lies in [0,1]: no exception, the call returns a learning rate.
GetLrNeverRaises ==
    lr_pc = "done" =>
        /\ lr_out.raised = "none"
        /\ lr_out.branch = "cosine" =>
              FracLe(Frac(0, 1), lr_out.val) /\ FracLe(lr_out.val, Frac(1, 1))

====
